---- MODULE Spec2Model ----
(***************************************************************************)
(* A model of efs_analyzer.py: the FileStats accumulator, the recursive    *)
(* directory walker scan_directory and the process-pool scheduler          *)
(* parallel_scan_directory.                                                *)
(*                                                                         *)
(* Three families of behaviours are specified over one set of variables:   *)
(*   Spec / FairSpec  a scan of a small file system (sequential fallback   *)
(*                    or one worker per top-level subdirectory);           *)
(*   SpecStats        arbitrary add_file / error / merge calls on one      *)
(*                    FileStats object;                                    *)
(*   SpecMerge        three FileStats operands and an empty accumulator    *)
(*                    merged pairwise in every order and grouping.         *)
(***************************************************************************)
EXTENDS Integers, Sequences, FiniteSets, TLC

VARIABLES
    cfg,        \* the run's inputs: command line options and the link target
    sched,      \* parallel_scan_directory: its position, subdirs and stats, and
                \* (history) the futures as_completed has yielded, in order
    futures,    \* one future per submitted subdirectory
    walk,       \* per process: the scan_directory call stack and visited_paths
    listed,     \* history: every os.scandir call made
    counted,    \* history: every stats.add_file call made by scan_directory
    obj,        \* SpecStats: the FileStats object under test
    last,       \* SpecStats: the last call made on obj
    pool,       \* SpecMerge: the FileStats objects not yet merged away
    operands    \* SpecMerge: the three operands as first drawn

vars == <<cfg, sched, futures, walk, listed, counted, obj, last, pool, operands>>

scanVars == <<cfg, sched, futures, walk, listed, counted>>
statsVars == <<obj, last>>
mergeVars == <<pool, operands>>

-----------------------------------------------------------------------------
(* Bounds of the model.                                                    *)

\* file sizes offered to add_file in SpecStats and SpecMerge: 0..MaxSize
MaxSize == 2
\* add_file calls made on the object of SpecStats
MaxFiles == 2
\* errors counted on the object of SpecStats, and on an operand of SpecMerge
MaxErrors == 1
\* scan_directory frames one process may have on its stack
MaxStack == 6

-----------------------------------------------------------------------------
(* class FileStats                                                         *)

Categories ==
    <<"0-7_days", "8-14_days", "15-30_days", "31-60_days",
      "61-90_days", "91-365_days", "1-2_years", "2+_years">>

CategorySet == {Categories[i] : i \in 1..Len(Categories)}

\* FileStats.__init__
FileStats ==
    [categories |-> [c \in CategorySet |-> 0],
     total_size |-> 0,
     total_files |-> 0,
     errors |-> 0]

\* add_file with every <= of the chain written <: a boundary day moves up.
add_file_strict(self, size, last_access_days) ==
    LET category ==
            IF last_access_days < 7 THEN "0-7_days"
            ELSE IF last_access_days < 14 THEN "8-14_days"
            ELSE IF last_access_days < 30 THEN "15-30_days"
            ELSE IF last_access_days < 60 THEN "31-60_days"
            ELSE IF last_access_days < 90 THEN "61-90_days"
            ELSE IF last_access_days < 365 THEN "91-365_days"
            ELSE IF last_access_days < 730 THEN "1-2_years"
            ELSE "2+_years"
    IN  [self EXCEPT !.total_size = @ + size,
                     !.total_files = @ + 1,
                     !.categories[category] = @ + size]

\* add_file without the update of total_size.
add_file_no_total(self, size, last_access_days) ==
    LET category ==
            IF last_access_days <= 7 THEN "0-7_days"
            ELSE IF last_access_days <= 14 THEN "8-14_days"
            ELSE IF last_access_days <= 30 THEN "15-30_days"
            ELSE IF last_access_days <= 60 THEN "31-60_days"
            ELSE IF last_access_days <= 90 THEN "61-90_days"
            ELSE IF last_access_days <= 365 THEN "91-365_days"
            ELSE IF last_access_days <= 730 THEN "1-2_years"
            ELSE "2+_years"
    IN  [self EXCEPT !.total_files = @ + 1,
                     !.categories[category] = @ + size]

\* FileStats.add_file
add_file(self, size, last_access_days) ==
    LET category ==
            IF last_access_days <= 7 THEN "0-7_days"
            ELSE IF last_access_days <= 14 THEN "8-14_days"
            ELSE IF last_access_days <= 30 THEN "15-30_days"
            ELSE IF last_access_days <= 60 THEN "31-60_days"
            ELSE IF last_access_days <= 90 THEN "61-90_days"
            ELSE IF last_access_days <= 365 THEN "91-365_days"
            ELSE IF last_access_days <= 730 THEN "1-2_years"
            ELSE "2+_years"
    IN  [self EXCEPT !.total_size = @ + size,
                     !.total_files = @ + 1,
                     !.categories[category] = @ + size]

\* merge that takes the other object's error count instead of adding it.
merge_errors_assigned(self, other) ==
    [categories |-> [c \in CategorySet |-> self.categories[c] + other.categories[c]],
     total_size |-> self.total_size + other.total_size,
     total_files |-> self.total_files + other.total_files,
     errors |-> other.errors]

\* merge that keeps its own file count instead of adding the other's.
merge_files_kept(self, other) ==
    [categories |-> [c \in CategorySet |-> self.categories[c] + other.categories[c]],
     total_size |-> self.total_size + other.total_size,
     total_files |-> self.total_files,
     errors |-> self.errors + other.errors]

\* FileStats.merge
merge(self, other) ==
    [categories |-> [c \in CategorySet |-> self.categories[c] + other.categories[c]],
     total_size |-> self.total_size + other.total_size,
     total_files |-> self.total_files + other.total_files,
     errors |-> self.errors + other.errors]

\* stats.errors += 1, as scan_directory does it
add_error(self) == [self EXCEPT !.errors = @ + 1]

-----------------------------------------------------------------------------
(* SpecStats: one FileStats object under arbitrary calls.                  *)

\* last_access_days offered to add_file: both sides of every threshold
DaysSamples == {0, 7, 8, 14, 15, 30, 31, 60, 61, 90, 91, 365, 366, 730, 731}

Sizes == 0..MaxSize

\* the objects offered as the argument of merge
MergeSamples ==
    {add_file(FileStats, s, d) : s \in Sizes, d \in {7, 30, 731}}
        \cup {FileStats, add_error(FileStats)}

NoCall == [op |-> "none"]

StatsIdle ==
    /\ obj = FileStats
    /\ last = NoCall

StatsInit ==
    /\ obj = FileStats
    /\ last = NoCall

StatsAddFile ==
    \E size \in Sizes, days \in DaysSamples :
        /\ obj.total_files < MaxFiles
        /\ obj' = add_file(obj, size, days)
        /\ last' = [op |-> "add_file", size |-> size, days |-> days, before |-> obj]

StatsAddError ==
    /\ obj.errors < MaxErrors
    /\ obj' = add_error(obj)
    /\ last' = [op |-> "error", before |-> obj]

StatsMerge ==
    \E other \in MergeSamples :
        /\ obj.total_files < MaxFiles
        /\ obj.errors < MaxErrors
        /\ obj' = merge(obj, other)
        /\ last' = [op |-> "merge", other |-> other, before |-> obj]

StatsNext ==
    \/ StatsAddFile
    \/ StatsAddError
    \/ StatsMerge

-----------------------------------------------------------------------------
(* SpecMerge: operands A, B, C and an empty accumulator, merged pairwise   *)
(* until one object is left.  pool maps the names of the objects still     *)
(* alive to their values; merging j into i removes j.                      *)

OperandSamples ==
    {add_file(FileStats, s, d) : s \in 1..MaxSize, d \in {7, 30}}
        \cup {FileStats}
        \cup {[add_file(FileStats, 1, 731) EXCEPT !.errors = e] : e \in 1..MaxErrors}

PoolNames == {"acc", "A", "B", "C"}

MergeIdle ==
    /\ pool = <<>>
    /\ operands = <<>>

MergeInit ==
    \E a \in OperandSamples, b \in OperandSamples, c \in OperandSamples :
        /\ operands = [A |-> a, B |-> b, C |-> c]
        /\ pool = [n \in PoolNames |->
                     IF n = "acc" THEN FileStats ELSE operands[n]]

MergeStep ==
    \E i \in DOMAIN pool, j \in DOMAIN pool :
        /\ i # j
        /\ pool' = [n \in (DOMAIN pool) \ {j} |->
                      IF n = i THEN merge(pool[i], pool[j]) ELSE pool[n]]
        /\ UNCHANGED operands

MergeNext == MergeStep

-----------------------------------------------------------------------------
(* The file system under the scan root.  A path is the sequence of its     *)
(* components; a canonical path names a node of the tree below.  The tree  *)
(* is fixed except for one symbolic link whose place and target are inputs *)
(* of the run: /efs/a/x/l, or /efs/k when cfg.top, pointing at cfg.link.   *)
(*                                                                         *)
(*   /efs            f0, (k -> cfg.link)                                   *)
(*   /efs/a          f1                                                    *)
(*   /efs/a/x        f2, (l -> cfg.link)                                   *)
(*   /efs/b                                                                *)
(*   /efs/b/d        f3                                                    *)
(*   /efs/b/d/y      f4, mnt (a regular file)                              *)
(*   /efs/tmp        f5                                                    *)

Front(s) == SubSeq(s, 1, Len(s) - 1)
Last(s) == s[Len(s)]

Root == <<"efs">>
DirA == <<"efs", "a">>
DirX == <<"efs", "a", "x">>
DirB == <<"efs", "b">>
DirD == <<"efs", "b", "d">>
DirY == <<"efs", "b", "d", "y">>
DirTmp == <<"efs", "tmp">>
File0 == <<"efs", "f0">>
File1 == <<"efs", "a", "f1">>
File2 == <<"efs", "a", "x", "f2">>
File3 == <<"efs", "b", "d", "f3">>
File4 == <<"efs", "b", "d", "y", "f4">>
File5 == <<"efs", "tmp", "f5">>
File6 == <<"efs", "b", "d", "y", "mnt">>
DeepLink == <<"efs", "a", "x", "l">>
TopLink == <<"efs", "k">>
\* a path no node has: the target of a dangling link
Missing == <<"efs", "gone">>

\* where the link of this run is
LinkPath == IF cfg.top THEN TopLink ELSE DeepLink

Directories == {Root, DirA, DirX, DirB, DirD, DirY, DirTmp}
RegularFiles == {File0, File1, File2, File3, File4, File5, File6}
NoLink == <<>>
LinkTargets == {NoLink, Root, DirA, DirD, File3, Missing, DirTmp}

\* one day of a datetime.timedelta, in seconds
SecondsPerDay == 86400

\* the scan's reference time: datetime.now() taken once in main
current_time == 1000 * SecondsPerDay

\* os.stat_result of a regular file: st_size, st_atime, st_mtime
StatOf(file) ==
    CASE file = File0 -> [st_size |-> 1, st_atime |-> current_time - 3 * SecondsPerDay,
                          st_mtime |-> current_time - 5 * SecondsPerDay]
      [] file = File1 -> [st_size |-> 2, st_atime |-> current_time - 7 * SecondsPerDay - 1,
                          st_mtime |-> current_time - 9 * SecondsPerDay]
      [] file = File2 -> [st_size |-> 4, st_atime |-> current_time - 400 * SecondsPerDay,
                          st_mtime |-> current_time - 40 * SecondsPerDay]
      [] file = File3 -> [st_size |-> 8, st_atime |-> current_time - 100 * SecondsPerDay,
                          st_mtime |-> current_time - 100 * SecondsPerDay]
      [] file = File4 -> [st_size |-> 16, st_atime |-> current_time - 800 * SecondsPerDay,
                          st_mtime |-> current_time - 900 * SecondsPerDay]
      [] file = File5 -> [st_size |-> 32, st_atime |-> current_time - 1 * SecondsPerDay,
                          st_mtime |-> current_time - 1 * SecondsPerDay]
      [] file = File6 -> [st_size |-> 64, st_atime |-> current_time - 20 * SecondsPerDay,
                          st_mtime |-> current_time - 10 * SecondsPerDay]

\* the nodes that exist, the link included when it has a target
Nodes == Directories \cup RegularFiles \cup (IF cfg.link = NoLink THEN {} ELSE {LinkPath})

IsLink(node) == node = LinkPath /\ cfg.link # NoLink

\* what a canonical path is: "dir", "file", or "missing"
Kind(node) ==
    IF node \in Directories THEN "dir"
    ELSE IF node \in RegularFiles THEN "file"
    ELSE "missing"

IsPrefix(prefix, path) ==
    /\ Len(prefix) <= Len(path)
    /\ SubSeq(path, 1, Len(prefix)) = prefix

\* Path.resolve(): the canonical path of a path.  The tree has one link and
\* the link's target is canonical, so resolving the components from the left
\* is replacing a leading link path by the target until none is left.  A
\* target that does not exist is no error: resolve() is not strict.
RECURSIVE resolve(_)
resolve(path) ==
    IF cfg.link # NoLink /\ IsPrefix(LinkPath, path)
    THEN resolve(cfg.link \o SubSeq(path, Len(LinkPath) + 1, Len(path)))
    ELSE path

\* the names os.scandir yields for a directory
EntryNames(directory) ==
    {Last(n) : n \in {m \in Nodes : Front(m) = resolve(directory)}}

\* every order in which os.scandir may yield them
Orders(S) ==
    {o \in [1..Cardinality(S) -> S] : \A i, j \in 1..Cardinality(S) : o[i] = o[j] => i = j}

\* os.DirEntry of the entry `name` of `directory`
DirEntry(directory, name) ==
    LET node == Append(resolve(directory), name)
        target == IF IsLink(node) THEN cfg.link ELSE node
    IN  [name |-> name,
         path |-> Append(directory, name),
         node |-> node,
         target |-> target,
         is_symlink |-> IsLink(node)]

\* DirEntry.is_dir(follow_symlinks) and DirEntry.is_file(follow_symlinks)
EntryIsDir(entry, follow_symlinks) ==
    IF follow_symlinks THEN Kind(entry.target) = "dir"
    ELSE ~entry.is_symlink /\ Kind(entry.node) = "dir"

EntryIsFile(entry, follow_symlinks) ==
    IF follow_symlinks THEN Kind(entry.target) = "file"
    ELSE ~entry.is_symlink /\ Kind(entry.node) = "file"

-----------------------------------------------------------------------------
(* Path strings.  str(path) is spelled out character by character, since   *)
(* is_system_directory compares strings with str.startswith.               *)

Spell(name) ==
    CASE name = "efs" -> <<"e", "f", "s">>
      [] name = "tmp" -> <<"t", "m", "p">>
      [] name = "proc" -> <<"p", "r", "o", "c">>
      [] name = "sys" -> <<"s", "y", "s">>
      [] name = "dev" -> <<"d", "e", "v">>
      [] name = "run" -> <<"r", "u", "n">>
      [] name = "mnt" -> <<"m", "n", "t">>
      [] name = "media" -> <<"m", "e", "d", "i", "a">>
      [] name = "var" -> <<"v", "a", "r">>
      [] name = "f0" -> <<"f", "0">>
      [] name = "f1" -> <<"f", "1">>
      [] name = "f2" -> <<"f", "2">>
      [] name = "f3" -> <<"f", "3">>
      [] name = "f4" -> <<"f", "4">>
      [] name = "f5" -> <<"f", "5">>
      [] name = "gone" -> <<"g", "o", "n", "e">>
      [] name = "tmpdata" -> <<"t", "m", "p", "d", "a", "t", "a">>
      [] name = "data" -> <<"d", "a", "t", "a">>
      [] OTHER -> <<name>>

\* str(Path): "/" before every component
PathStr(path) ==
    LET str[k \in 0..Len(path)] ==
            IF k = 0 THEN <<>> ELSE str[k - 1] \o <<"/">> \o Spell(path[k])
    IN  str[Len(path)]

\* the same without the leading "/": sys_dir.strip('/')
StripSlash(str) == IF str # <<>> /\ str[1] = "/" THEN SubSeq(str, 2, Len(str)) ELSE str

\* str.startswith
StartsWith(str, prefix) ==
    /\ Len(prefix) <= Len(str)
    /\ SubSeq(str, 1, Len(prefix)) = prefix

\* Path(path_str).parts of an absolute path: "/" and then the components
PathParts(path) == {<<"/">>} \cup {Spell(path[i]) : i \in 1..Len(path)}

\* main: the system directories of a non-Windows platform, as str(sys_dir)
system_dirs ==
    {PathStr(<<name>>) : name \in {"proc", "sys", "dev", "run", "tmp", "mnt", "media"}}

\* main: the default of --exclude
exclude_dirs == {"proc", "sys", "dev", "run", "tmp", "mnt", "media"}

\* line 211, each as sys_dir.strip('/')
common_system_dirs ==
    {StripSlash(PathStr(dir)) :
        dir \in {<<"proc">>, <<"sys">>, <<"dev">>, <<"run">>, <<"tmp">>, <<"var", "run">>}}

is_system_directory(path, sys_dirs) ==
    LET path_str == PathStr(path)
        path_parts == PathParts(path)
    IN  \/ \E sys_dir \in sys_dirs : StartsWith(path_str, sys_dir)
        \/ \E sys_dir \in common_system_dirs : sys_dir \in path_parts

\* get_last_access_days: timedelta.days of now minus the later of atime and mtime
get_last_access_days(stat_info, now) ==
    LET last_access ==
            IF stat_info.st_atime >= stat_info.st_mtime
            THEN stat_info.st_atime ELSE stat_info.st_mtime
    IN  (now - last_access) \div SecondsPerDay

-----------------------------------------------------------------------------
(* The inputs of a run.                                                    *)

\* the default of --max-depth
DefaultMaxDepth == 100

MaxDepths == {0, 1, 2, DefaultMaxDepth}
Parallels == {1, 2, 8}

\* what may go wrong while the tree is read (at most one per run):
\*   scandir_denied   os.scandir(/efs/b/d) raises PermissionError
\*   scandir_oserror  os.scandir(/efs/b/d) raises another OSError
\*   stat_fails       entry.stat() of /efs/a/f1 raises OSError
\*   resolve_denied   Path.resolve() of /efs/a/x/f2 raises PermissionError
\*   type_fails       entry.is_file() of /efs/b/d/f3 raises OSError
Faults == {"none", "scandir_denied", "scandir_oserror", "stat_fails", "resolve_denied",
           "type_fails"}

\* A run either has a fault or may have the link, not both.  The link in the
\* root points at /efs/b/d or at the excluded /efs/tmp, and is scanned
\* with the default depth by at most two processes.
Configs ==
    {c \in [link : LinkTargets,
            top : BOOLEAN,
            max_depth : MaxDepths,
            follow_symlinks : BOOLEAN,
            parallel : Parallels,
            fault : Faults] :
        /\ c.fault # "none" => (c.link = NoLink /\ ~c.follow_symlinks)
        /\ c.top => /\ c.link \in {DirD, DirTmp}
                    /\ c.max_depth = DefaultMaxDepth
                    /\ c.parallel <= 2
        /\ c.link = DirTmp => c.top}

ScandirOutcome(directory) ==
    IF resolve(directory) = DirD /\ cfg.fault = "scandir_denied" THEN "PermissionError"
    ELSE IF resolve(directory) = DirD /\ cfg.fault = "scandir_oserror" THEN "OSError"
    ELSE "ok"

StatOutcome(node) ==
    IF node = File1 /\ cfg.fault = "stat_fails" THEN "OSError" ELSE "ok"

ResolveOutcome(entry) ==
    IF entry.node = File2 /\ cfg.fault = "resolve_denied" THEN "PermissionError" ELSE "ok"

TypeOutcome(node) ==
    IF node = File3 /\ cfg.fault = "type_fails" THEN "OSError" ELSE "ok"

-----------------------------------------------------------------------------
(* scan_directory.  A call is a frame on its process's stack:              *)
(*   pc = "enter"    called, the directory not yet read                    *)
(*   pc = "recurse"  the loop over dir_entries is over; subdirs[i] is the  *)
(*                   next subdirectory of the loop over subdirs            *)
(*   pc = "raised"   an exception left the call                            *)
(* Process 0 is the scheduler's own process (the sequential scan);         *)
(* process w >= 1 runs the task submitted for subdirs[w].                  *)

Procs == 0..Cardinality({d \in Directories : Front(d) = Root})

Frame(directory, current_depth) ==
    [directory |-> directory,
     current_depth |-> current_depth,
     stats |-> FileStats,
     subdirs |-> <<>>,
     pc |-> "enter",
     i |-> 1]

NoProcess == [stack |-> <<>>, visited_paths |-> {}]

Running(p) == walk[p].stack # <<>>
Top(p) == walk[p].stack[Len(walk[p].stack)]

\* line 253: except (PermissionError, FileNotFoundError)
listing_except(exc) == exc \in {"PermissionError", "FileNotFoundError"}

\* line 311 with the exceptions of line 253 in place of Exception
outer_except_as_listing(exc) == exc \in {"PermissionError", "FileNotFoundError"}

\* line 311: except Exception
outer_except(exc) == exc \in {"PermissionError", "FileNotFoundError", "OSError"}

\* the loop guard of lines 274-276 without the skip of a visited path
IsVisited_never(real_path, visited_paths) == FALSE

\* a loop guard that remembers directories only
IsVisited_directories_only(real_path, visited_paths) ==
    real_path \in visited_paths /\ real_path \in Directories

\* lines 274-275: real_path in visited_paths
IsVisited(real_path, visited_paths) == real_path \in visited_paths

\* The body of `for entry in dir_entries` for one entry.  acc carries the
\* call's stats and subdirs, the shared visited_paths, and the add_file
\* calls made (for the history).
process_entry(acc, entry, proc, current_depth) ==
    IF /\ EntryIsDir(entry, TRUE)
       /\ ~(entry.name \notin exclude_dirs /\ ~is_system_directory(entry.path, system_dirs))
    THEN acc
    ELSE IF entry.is_symlink /\ ~cfg.follow_symlinks
    THEN acc
    ELSE IF ResolveOutcome(entry) # "ok"
    THEN [acc EXCEPT !.stats = add_error(@)]
    ELSE
        LET real_path == resolve(entry.path)
        IN  IF IsVisited(real_path, acc.visited_paths)
            THEN acc
            ELSE
                LET seen == [acc EXCEPT !.visited_paths = @ \cup {real_path}]
                    node == IF cfg.follow_symlinks THEN entry.target ELSE entry.node
                IN  IF TypeOutcome(node) # "ok"
                    THEN [seen EXCEPT !.stats = add_error(@)]
                    ELSE IF EntryIsFile(entry, cfg.follow_symlinks)
                    THEN IF StatOutcome(node) # "ok"
                         THEN [seen EXCEPT !.stats = add_error(@)]
                         ELSE LET stat_info == StatOf(node)
                                  last_access_days ==
                                      get_last_access_days(stat_info, current_time)
                              IN  [seen EXCEPT
                                      !.stats = add_file(@, stat_info.st_size,
                                                         last_access_days),
                                      !.counted = @ \cup
                                          {[proc |-> proc, path |-> entry.path,
                                            real |-> real_path,
                                            depth |-> current_depth]}]
                    ELSE IF EntryIsDir(entry, cfg.follow_symlinks)
                    THEN IF ~is_system_directory(entry.path, system_dirs)
                         THEN [seen EXCEPT !.subdirs = Append(@, entry.path)]
                         ELSE seen
                    ELSE seen

\* the one element of a singleton
Only(S) == CHOOSE x \in S : TRUE

\* `for entry in dir_entries`, in the order os.scandir gave.  Each pass binds
\* the state the passes before it left (a \in {acc}) and handles one entry.
RECURSIVE scan_entries(_, _, _, _, _, _)
scan_entries(acc, directory, order, k, proc, current_depth) ==
    IF k > Len(order) THEN acc
    ELSE scan_entries(
             Only({process_entry(a, entry, proc, current_depth) :
                      a \in {acc}, entry \in {DirEntry(directory, order[k])}}),
             directory, order, k + 1, proc, current_depth)

\* line 316, and the loop over subdirs not yet over
MayDescend(frame) ==
    /\ frame.current_depth < cfg.max_depth
    /\ frame.i <= Len(frame.subdirs)

Unused == UNCHANGED <<obj, last, pool, operands>>

\* Lines 240-313: the system directory check, os.scandir and the loop over
\* the entries, in one step.
ScanEntries(p) ==
    /\ Running(p)
    /\ Top(p).pc = "enter"
    /\ LET frame == Top(p)
           depth == Len(walk[p].stack)
           skip == is_system_directory(frame.directory, system_dirs)
           outcome == IF skip THEN "skipped" ELSE ScandirOutcome(frame.directory)
       IN  \E order \in (IF outcome = "ok"
                         THEN Orders(EntryNames(frame.directory)) ELSE {<<>>}) :
               LET acc0 == [stats |-> IF listing_except(outcome)
                                      THEN add_error(frame.stats) ELSE frame.stats,
                            subdirs |-> <<>>,
                            visited_paths |-> walk[p].visited_paths,
                            counted |-> {}]
                   acc == scan_entries(acc0, frame.directory, order, 1, p,
                                       frame.current_depth)
               IN  /\ walk' = [walk EXCEPT
                          ![p].stack[depth] =
                              [frame EXCEPT !.stats = acc.stats,
                                            !.subdirs = acc.subdirs,
                                            !.pc = IF \/ outcome \in {"ok", "skipped"}
                                                      \/ listing_except(outcome)
                                                      \/ outer_except(outcome)
                                                   THEN "recurse" ELSE "raised"],
                          ![p].visited_paths = acc.visited_paths]
                   /\ counted' = counted \cup acc.counted
                   /\ listed' = IF skip THEN listed
                                ELSE listed \cup
                                     {[proc |-> p, directory |-> frame.directory,
                                       real |-> resolve(frame.directory),
                                       depth |-> frame.current_depth]}
    /\ UNCHANGED <<cfg, sched, futures>>
    /\ Unused

\* Lines 316-321: the recursive call for subdirs[i].
Descend(p) ==
    /\ Running(p)
    /\ Top(p).pc = "recurse"
    /\ MayDescend(Top(p))
    /\ Len(walk[p].stack) < MaxStack
    /\ walk' = [walk EXCEPT ![p].stack =
                   Append(@, Frame(Top(p).subdirs[Top(p).i], Top(p).current_depth + 1))]
    /\ UNCHANGED <<cfg, sched, futures, listed, counted>>
    /\ Unused

\* the call on top of the stack is over: it returns or has raised
Returning(frame) ==
    \/ frame.pc = "raised"
    \/ frame.pc = "recurse" /\ ~MayDescend(frame)

\* Lines 318-324: a recursive call returns and its caller merges sub_stats;
\* an exception of the call leaves the caller too, line 318 being in no try.
Return(p) ==
    /\ Len(walk[p].stack) > 1
    /\ Returning(Top(p))
    /\ LET depth == Len(walk[p].stack)
           caller == walk[p].stack[depth - 1]
       IN  walk' = [walk EXCEPT ![p].stack =
                       [Front(@) EXCEPT ![depth - 1] =
                           IF Top(p).pc = "raised"
                           THEN [caller EXCEPT !.pc = "raised"]
                           ELSE [caller EXCEPT !.stats = merge(@, Top(p).stats),
                                               !.i = @ + 1]]]
    /\ UNCHANGED <<cfg, sched, futures, listed, counted>>
    /\ Unused

-----------------------------------------------------------------------------
(* parallel_scan_directory.                                                *)
(*   sched.pc = "start"       before the first level scan                  *)
(*              "sequential"  the single-process scan is running           *)
(*              "collect"     jobs submitted, in `for future in            *)
(*                            as_completed(futures)`                       *)
(*              "done"        stats returned                               *)
(*              "raised"      an exception left parallel_scan_directory    *)
(* The estimate of the file count and the progress bar are left out: they  *)
(* write only total_files, processed_files and progress_bar.               *)

\* lines 390-394: the subdirectories found by the first level scan
RECURSIVE first_level(_, _)
first_level(order, k) ==
    IF k > Len(order) THEN <<>>
    ELSE LET entry == DirEntry(Root, order[k])
         IN  IF /\ EntryIsDir(entry, TRUE)
                /\ entry.name \notin exclude_dirs
                /\ ~is_system_directory(entry.path, system_dirs)
             THEN <<entry.path>> \o first_level(order, k + 1)
             ELSE first_level(order, k + 1)

\* a test that also falls back when the pool would be larger than the
\* number of subdirectories
SingleProcess_when_pool_larger(subdirs) ==
    ~(subdirs # <<>> /\ cfg.parallel > 1) \/ Len(subdirs) < cfg.parallel

\* line 400
SingleProcess(subdirs) == ~(subdirs # <<>> /\ cfg.parallel > 1)

Min(a, b) == IF a <= b THEN a ELSE b

\* a pool with one process per submitted job, whatever --parallel says
max_workers_per_job == Len(sched.subdirs)

\* line 410: max_workers of the pool
max_workers == Min(cfg.parallel, Len(sched.subdirs))

\* Lines 386-404: the first level scan finds no subdirectory or parallel <= 1.
Fallback ==
    /\ sched.pc = "start"
    /\ \E order \in Orders(EntryNames(Root)) :
           LET subdirs == first_level(order, 1)
           IN  /\ SingleProcess(subdirs)
               /\ sched' = [sched EXCEPT !.pc = "sequential", !.subdirs = subdirs]
    /\ walk' = [walk EXCEPT ![0] = [stack |-> <<Frame(Root, 0)>>, visited_paths |-> {}]]
    /\ UNCHANGED <<cfg, futures, listed, counted>>
    /\ Unused

\* Lines 401-406: the single-process scan returns, or its exception leaves
\* parallel_scan_directory.
FinishSequential ==
    /\ sched.pc = "sequential"
    /\ Len(walk[0].stack) = 1
    /\ Returning(Top(0))
    /\ sched' = IF Top(0).pc = "raised"
                THEN [sched EXCEPT !.pc = "raised"]
                ELSE [sched EXCEPT !.pc = "done", !.stats = Top(0).stats]
    /\ walk' = [walk EXCEPT ![0].stack = <<>>]
    /\ UNCHANGED <<cfg, futures, listed, counted>>
    /\ Unused

\* Lines 386-419: one job per subdirectory is submitted to the pool.
Dispatch ==
    /\ sched.pc = "start"
    /\ \E order \in Orders(EntryNames(Root)) :
           LET subdirs == first_level(order, 1)
           IN  /\ ~SingleProcess(subdirs)
               /\ sched' = [sched EXCEPT !.pc = "collect", !.subdirs = subdirs]
               /\ futures' = [w \in 1..Len(subdirs) |->
                                 [state |-> "pending", result |-> FileStats,
                                  collected |-> FALSE]]
    /\ UNCHANGED <<cfg, walk, listed, counted>>
    /\ Unused

\* one set handed to every job: a job starts with the paths the other
\* processes have put in it
job_visited_paths_shared(w) == UNION {walk[v].visited_paths : v \in Procs \ {w}}

\* line 417: each job is submitted with a new set()
job_visited_paths(w) == {}

\* A free pool process takes the oldest pending job:
\* scan_directory(subdir, ..., max_depth, 1, ..., set()).
StartWorker(w) ==
    /\ sched.pc = "collect"
    /\ w \in DOMAIN futures
    /\ futures[w].state = "pending"
    /\ \A v \in DOMAIN futures : v < w => futures[v].state # "pending"
    /\ Cardinality({v \in DOMAIN futures : futures[v].state = "running"}) < max_workers
    /\ futures' = [futures EXCEPT ![w].state = "running"]
    /\ walk' = [walk EXCEPT ![w] = [stack |-> <<Frame(sched.subdirs[w], 1)>>,
                                    visited_paths |-> job_visited_paths(w)]]
    /\ UNCHANGED <<cfg, sched, listed, counted>>
    /\ Unused

\* The job's scan_directory call returns: the future holds its FileStats, or
\* the exception the call raised.
WorkerDone(w) ==
    /\ w \in DOMAIN futures
    /\ futures[w].state = "running"
    /\ Len(walk[w].stack) = 1
    /\ Returning(Top(w))
    /\ futures' = IF Top(w).pc = "raised"
                  THEN [futures EXCEPT ![w].state = "failed"]
                  ELSE [futures EXCEPT ![w].state = "done", ![w].result = Top(w).stats]
    /\ walk' = [walk EXCEPT ![w].stack = <<>>]
    /\ UNCHANGED <<cfg, sched, listed, counted>>
    /\ Unused

\* The job dies (its process is killed, its result cannot be sent back):
\* future.result() will raise.
WorkerFail(w) ==
    /\ w \in DOMAIN futures
    /\ futures[w].state = "running"
    /\ futures' = [futures EXCEPT ![w].state = "failed"]
    /\ walk' = [walk EXCEPT ![w].stack = <<>>]
    /\ UNCHANGED <<cfg, sched, listed, counted>>
    /\ Unused

\* merge applied twice to a returned result
collect_twice(stats, future) ==
    IF future.state = "done"
    THEN merge(merge(stats, future.result), future.result) ELSE stats

\* Lines 423-428: the body of the loop over as_completed(futures)
collect(stats, future) ==
    IF future.state = "done" THEN merge(stats, future.result) ELSE stats

\* Lines 422-428: as_completed yields a finished future.
Collect(w) ==
    /\ sched.pc = "collect"
    /\ w \in DOMAIN futures
    /\ futures[w].state \in {"done", "failed"}
    /\ ~futures[w].collected
    /\ sched' = [sched EXCEPT !.stats = collect(@, futures[w]),
                              !.yielded = Append(@, w)]
    /\ futures' = [futures EXCEPT ![w].collected = TRUE]
    /\ UNCHANGED <<cfg, walk, listed, counted>>
    /\ Unused

\* Lines 430-431: every future has been yielded; stats is returned.
Finish ==
    /\ sched.pc = "collect"
    /\ \A w \in DOMAIN futures : futures[w].collected
    /\ sched' = [sched EXCEPT !.pc = "done"]
    /\ UNCHANGED <<cfg, futures, walk, listed, counted>>
    /\ Unused

ScanInit ==
    /\ cfg \in Configs
    /\ sched = [pc |-> "start", subdirs |-> <<>>, stats |-> FileStats, yielded |-> <<>>]
    /\ futures = <<>>
    /\ walk = [p \in Procs |-> NoProcess]
    /\ listed = {}
    /\ counted = {}

ScanIdle ==
    /\ cfg = [link |-> NoLink, top |-> FALSE, max_depth |-> DefaultMaxDepth,
              follow_symlinks |-> FALSE, parallel |-> 1, fault |-> "none"]
    /\ sched = [pc |-> "done", subdirs |-> <<>>, stats |-> FileStats, yielded |-> <<>>]
    /\ futures = <<>>
    /\ walk = [p \in Procs |-> NoProcess]
    /\ listed = {}
    /\ counted = {}

Init == ScanInit /\ StatsIdle /\ MergeIdle

Next ==
    \/ Fallback
    \/ Dispatch
    \/ \E p \in Procs : ScanEntries(p)
    \/ \E p \in Procs : Descend(p)
    \/ \E p \in Procs : Return(p)
    \/ FinishSequential
    \/ \E w \in Procs : StartWorker(w)
    \/ \E w \in Procs : WorkerDone(w)
    \/ \E w \in Procs : WorkerFail(w)
    \/ \E w \in Procs : Collect(w)
    \/ Finish

Spec == Init /\ [][Next]_vars

\* The scans that follow links over a tree that holds one.  Two of the root's
\* directories are handed out, so a pool of three is the pool of two.
FairInit ==
    /\ Init
    /\ cfg.follow_symlinks
    /\ cfg.link \in {Root, DirA, DirD, File3}
    /\ ~cfg.top
    /\ cfg.parallel \in {1, 2}

\* Every process that can take a step eventually takes one: the scheduler and
\* the pool's processes run until they return.
FairSpec == FairInit /\ [][Next]_vars /\ WF_vars(Next)

\* The scans during which something goes wrong.
FaultInit == Init /\ cfg.fault # "none"

FaultSpec == FaultInit /\ [][Next]_vars /\ WF_vars(Next)

\* One FileStats object and the calls made on it, no scan running.
InitStats == ScanIdle /\ StatsInit /\ MergeIdle

SpecStats == InitStats /\ [][StatsNext /\ UNCHANGED <<scanVars, mergeVars>>]_vars

\* The collection loop's merges alone, over operands of every shape.
InitMerge == ScanIdle /\ StatsIdle /\ MergeInit

SpecMerge == InitMerge /\ [][MergeNext /\ UNCHANGED <<scanVars, statsVars>>]_vars

-----------------------------------------------------------------------------
(* Vocabulary of the properties.                                           *)

Done == sched.pc = "done"

\* the run went through the process pool
Dispatched == futures # <<>>

\* the run was the single-process scan
Sequential == sched.pc \in {"sequential", "done"} /\ futures = <<>>

DoneWorkers == {w \in DOMAIN futures : futures[w].state = "done"}
FailedWorkers == {w \in DOMAIN futures : futures[w].state = "failed"}

\* the results of the jobs that returned, merged in the order of submission
RECURSIVE MergedInOrder(_)
MergedInOrder(k) ==
    IF k = 0 THEN FileStats
    ELSE IF futures[k].state = "done"
         THEN merge(MergedInOrder(k - 1), futures[k].result)
         ELSE MergedInOrder(k - 1)

\* the statistics of a set of regular files, each counted once
RECURSIVE StatsOfFiles(_)
StatsOfFiles(files) ==
    IF files = {} THEN FileStats
    ELSE LET file == CHOOSE f \in files : TRUE
             stat_info == StatOf(file)
         IN  add_file(StatsOfFiles(files \ {file}), stat_info.st_size,
                      get_last_access_days(stat_info, current_time))

\* depth of a directory of the tree, the root at 0
DepthOf(directory) == Len(directory) - Len(Root)
TreeDepth == CHOOSE n \in 0..Cardinality(Directories) :
                 /\ \E d \in Directories : DepthOf(d) = n
                 /\ \A d \in Directories : DepthOf(d) <= n

\* the directories on the way from the root to a node, the root left out
Ancestors(node) == {SubSeq(node, 1, k) : k \in (Len(Root) + 1)..(Len(node) - 1)}

\* no fault stands between the scan and the file, and no filter excludes a
\* directory it lies in
Readable(file) ==
    /\ StatOutcome(file) = "ok"
    /\ ResolveOutcome(DirEntry(Front(file), Last(file))) = "ok"
    /\ \A d \in Ancestors(file) : ScandirOutcome(d) = "ok"

NotFiltered(file) ==
    \A d \in Ancestors(file) :
        Last(d) \notin exclude_dirs /\ ~is_system_directory(d, system_dirs)

RootFiles == {f \in RegularFiles : Front(f) = Root}

-----------------------------------------------------------------------------
(* C1: in parallel mode the final Aggregate is the merge of every worker's *)
(* Aggregate plus the statistics of the regular files located directly in  *)
(* the root.                                                               *)
C1_RootFilesMerged ==
    (Done /\ Dispatched) =>
        sched.stats = merge(MergedInOrder(Len(futures)),
                            StatsOfFiles({f \in RootFiles : Readable(f)}))

(* C2: a worker whose future raises adds exactly one error and none of its *)
(* bytes or files to the final Aggregate, and the Aggregates of the other  *)
(* workers are still merged.                                               *)
C2_FailedWorkerIsOneError ==
    (Done /\ Dispatched) =>
        sched.stats = [MergedInOrder(Len(futures)) EXCEPT
                          !.errors = @ + Cardinality(FailedWorkers)]

(* C3: a scan_directory call whose current_depth exceeds max_depth lists   *)
(* no directory, visits no entry and returns an empty Aggregate.           *)
C3_NothingBeyondMaxDepth ==
    /\ \A e \in listed : e.depth <= cfg.max_depth
    /\ \A e \in counted : e.depth <= cfg.max_depth
    /\ \A p \in Procs : \A k \in 1..Len(walk[p].stack) :
           walk[p].stack[k].current_depth > cfg.max_depth
               => walk[p].stack[k].stats = FileStats

(* C4: in a sequential scan with max_depth = k below the depth of the      *)
(* tree, no file of a directory deeper than k contributes to the           *)
(* Aggregate, and every readable, non-filtered file of a directory at      *)
(* depth exactly k does.                                                   *)
C4_DepthCutoff ==
    (Sequential /\ cfg.max_depth < TreeDepth) =>
        /\ \A e \in counted :
               /\ e.depth <= cfg.max_depth
               /\ DepthOf(Front(e.real)) <= cfg.max_depth
        /\ Done =>
               \A f \in RegularFiles :
                   (DepthOf(Front(f)) = cfg.max_depth /\ Readable(f) /\ NotFiltered(f))
                       => \E e \in counted : e.real = f

(* C5: the Aggregate parallel_scan_directory returns does not depend on    *)
(* the order in which the futures complete and are merged: it is what      *)
(* merging the returned Aggregates in the order of submission gives.       *)
C5_CompletionOrderIrrelevant ==
    (Done /\ Dispatched) => sched.stats = MergedInOrder(Len(futures))

\* both jobs returned, with different error counts, and the one submitted
\* last was merged first
C5_Witness ==
    /\ Done
    /\ Len(futures) = 2
    /\ DoneWorkers = {1, 2}
    /\ sched.yielded = <<2, 1>>
    /\ futures[1].result.errors # futures[2].result.errors
    /\ sched.stats.total_files > futures[1].result.total_files

-----------------------------------------------------------------------------
\* the sum of the eight per-category byte totals
RECURSIVE SumCategories(_, _)
SumCategories(stats, k) ==
    IF k = 0 THEN 0
    ELSE stats.categories[Categories[k]] + SumCategories(stats, k - 1)

Consistent(stats) ==
    /\ stats.total_size = SumCategories(stats, Len(Categories))
    /\ stats.total_size >= 0
    /\ stats.total_files >= 0
    /\ stats.errors >= 0
    /\ \A c \in CategorySet : stats.categories[c] >= 0

\* every FileStats object of the state
AllFileStats ==
    {obj, sched.stats}
        \cup {futures[w].result : w \in DOMAIN futures}
        \cup UNION {{walk[p].stack[k].stats : k \in 1..Len(walk[p].stack)} : p \in Procs}
        \cup {pool[n] : n \in DOMAIN pool}

(* C6: in every FileStats object, after any add_file and merge calls with  *)
(* non-negative sizes, total_size is the sum of the eight per-category     *)
(* byte totals and no counter is negative.                                 *)
C6_TotalIsSumOfCategories == \A stats \in AllFileStats : Consistent(stats)

\* add_file and merge have both acted on the object, and two categories
\* hold bytes
C6_Witness ==
    /\ last.op = "merge"
    /\ obj.total_files >= 2
    /\ obj.total_size > 0
    /\ Cardinality({c \in CategorySet : obj.categories[c] > 0}) >= 2

(* C7: merge is associative and commutative: A, B and C merged with an     *)
(* empty Aggregate pairwise, in any order and any grouping, leave one      *)
(* object equal to ((empty + A) + B) + C; merging an empty Aggregate into  *)
(* an object, or an object into an empty one, gives that object.           *)
C7_MergeOrderAndGroupingIrrelevant ==
    /\ Cardinality(DOMAIN pool) = 1 =>
           \A n \in DOMAIN pool :
               pool[n] = merge(merge(merge(FileStats, operands.A), operands.B),
                               operands.C)
    /\ \A n \in DOMAIN pool :
           /\ merge(pool[n], FileStats) = pool[n]
           /\ merge(FileStats, pool[n]) = pool[n]

\* everything was merged into C, the operands differing in their errors
C7_Witness ==
    /\ DOMAIN pool = {"C"}
    /\ operands.A.errors # operands.B.errors
    /\ operands.C.errors = 0
    /\ pool["C"].errors > 0
    /\ pool["C"].total_files = 3

\* The claim's table: the first day of each bucket, in the order of Categories.
BucketStarts == <<0, 8, 15, 31, 61, 91, 366, 731>>

BucketsOf(days) ==
    {k \in 1..Len(BucketStarts) :
        /\ BucketStarts[k] <= days
        /\ k < Len(BucketStarts) => days < BucketStarts[k + 1]}

(* C8: add_file adds the size to exactly one category, the one whose       *)
(* bucket (0-7, 8-14, 15-30, 31-60, 61-90, 91-365, 366-730, 730+) holds    *)
(* last_access_days, and leaves the other seven unchanged; every           *)
(* non-negative day has exactly one bucket and a boundary day 7, 14, 30,   *)
(* 60, 90, 365, 730 has the lower one.                                     *)
C8_ExactlyOneBucket ==
    last.op = "add_file" =>
        /\ Cardinality(BucketsOf(last.days)) = 1
        /\ \A k \in BucketsOf(last.days) :
               obj.categories =
                   [last.before.categories EXCEPT ![Categories[k]] = @ + last.size]
        /\ obj.total_size = last.before.total_size + last.size
        /\ obj.total_files = last.before.total_files + 1

\* a file of a boundary day was added to an object that already held one
C8_Witness ==
    /\ last.op = "add_file"
    /\ last.days = 30
    /\ last.size > 0
    /\ last.before.total_files > 0
    /\ obj.categories["15-30_days"] = last.before.categories["15-30_days"] + last.size

(* C9: with symlink following enabled, a walk over a file system in which  *)
(* a directory holds a symlink to one of its ancestors terminates, for     *)
(* every max_depth: the scan ends by returning.                            *)
C9_ScanTerminates == <>Done

\* a scan that followed links and met the link to an ancestor returned
C9_Witness ==
    /\ Done
    /\ cfg.follow_symlinks
    /\ cfg.link \in {Root, DirA}
    /\ cfg.max_depth = DefaultMaxDepth
    /\ \E e \in listed : e.real = DirX

(* C10: in one sequential walk with symlink following enabled no           *)
(* directory, identified by its canonical path, the scan root included,    *)
(* has its entries listed more than once.                                  *)
C10_ListedAtMostOnce ==
    (Sequential /\ cfg.follow_symlinks) =>
        \A e1, e2 \in listed : e1.real = e2.real => e1 = e2

-----------------------------------------------------------------------------
(* Failures.                                                               *)

\* the entries whose resolution, type check or stat fails in this run: the
\* ones a fault is injected at, and a followed link whose target is missing
FailingEntries ==
    {f \in RegularFiles :
        \/ StatOutcome(f) # "ok"
        \/ TypeOutcome(f) # "ok"
        \/ ResolveOutcome(DirEntry(Front(f), Last(f))) # "ok"}
    \cup (IF cfg.link = Missing /\ cfg.follow_symlinks THEN {LinkPath} ELSE {})

\* the single-process scan of the whole tree has returned
WholeTreeScanned == Done /\ Sequential /\ cfg.max_depth = DefaultMaxDepth

(* C11: when resolving, type-checking or stat-ing one directory entry      *)
(* fails, errors grows by exactly one for that entry, the entry adds no    *)
(* bytes and no file, and every other entry is processed as if nothing     *)
(* had failed.                                                             *)
C11_EntryFailureIsOneError ==
    (WholeTreeScanned /\ FailingEntries # {}) =>
        /\ sched.stats.errors = Cardinality(FailingEntries)
        /\ \A e \in counted : e.real \notin FailingEntries
        /\ \A f \in RegularFiles \ FailingEntries :
               NotFiltered(f) => \E e \in counted : e.real = f

(* C12: if a subdirectory cannot be listed, whatever the listing error,    *)
(* the call for it returns an Aggregate with no files and one error, and   *)
(* the final Aggregate has errors >= 1 and as many files as the readable   *)
(* sibling directories hold.                                               *)
C12_UnlistableLosesOnlySubtree ==
    /\ \A p \in Procs : \A k \in 1..Len(walk[p].stack) :
           LET frame == walk[p].stack[k]
           IN  (ScandirOutcome(frame.directory) # "ok" /\ frame.pc # "enter")
                   => frame.stats = add_error(FileStats)
    /\ (WholeTreeScanned /\ ScandirOutcome(DirD) # "ok") =>
           /\ sched.stats.errors >= 1
           /\ sched.stats.total_files =
                  Cardinality({f \in RegularFiles :
                                  NotFiltered(f) /\ ~IsPrefix(DirD, f)})

-----------------------------------------------------------------------------
(* is_system_directory on its own: paths of up to MaxPathLen components.   *)

\* components a path is made of
MaxPathLen == 3

PathNames == {"efs", "tmp", "tmpdata", "data", "mnt", "run", "var"}
PathSamples == UNION {[1..n -> PathNames] : n \in 1..MaxPathLen}

CheckPath ==
    /\ last = NoCall
    /\ \E path \in PathSamples :
           last' = [op |-> "is_system_directory", path |-> path,
                    result |-> is_system_directory(path, system_dirs)]
    /\ UNCHANGED <<obj, scanVars, mergeVars>>

InitPaths == ScanIdle /\ StatsIdle /\ MergeIdle

SpecPaths == InitPaths /\ [][CheckPath]_vars

\* the configured system directories, as path components
SystemDirParts == {<<name>> : name \in {"proc", "sys", "dev", "run", "tmp", "mnt", "media"}}

(* C14: is_system_directory(path, system_dirs) is true exactly when the    *)
(* components of some configured system directory are a prefix of the      *)
(* path's components: /tmpdata next to /tmp, and a directory with a        *)
(* component named like a system directory deeper in its path, are not     *)
(* flagged.                                                                *)
C14_PrefixContainment ==
    last.op = "is_system_directory" =>
        (last.result <=> \E sys_dir \in SystemDirParts : IsPrefix(sys_dir, last.path))

-----------------------------------------------------------------------------
(* Links and exclusions in the scan.                                       *)

(* C15: with follow_symlinks disabled no symbolic link, at any level, the  *)
(* top-level children of the root handed to the pool included, adds bytes  *)
(* or files to the Aggregate or is descended into.                         *)
C15_LinksSkippedWhenNotFollowing ==
    ~cfg.follow_symlinks =>
        /\ \A e \in counted : ~IsPrefix(LinkPath, e.path)
        /\ \A e \in listed : ~IsPrefix(LinkPath, e.directory)

\* a directory with an excluded name lies on the way from the root to node
UnderExcluded(node) ==
    \E d \in Directories \ {Root} : Last(d) \in exclude_dirs /\ IsPrefix(d, node)

(* C16: in both modes a directory below the scan root whose name is in     *)
(* the exclusion list is never listed and no file anywhere under it adds   *)
(* to the Aggregate; a regular file named like an excluded directory is    *)
(* counted.                                                                *)
C16_ExcludedNeverListed ==
    /\ \A e \in listed : ~UnderExcluded(e.real)
    /\ \A e \in counted : ~UnderExcluded(e.real)
    /\ (WholeTreeScanned /\ cfg.fault = "none") => \E e \in counted : e.real = File6

-----------------------------------------------------------------------------
(* The recency of one file: get_last_access_days and add_file together.    *)

\* lines 104-118: the last day of each bucket but the last
Thresholds == <<7, 14, 30, 60, 90, 365, 730>>

\* seconds between a time stamp and the scan's reference time: each
\* threshold exactly, one second more, and one second short of a day more
ElapsedSamples ==
    {d * SecondsPerDay + s :
        d \in {0} \cup {Thresholds[k] : k \in DOMAIN Thresholds},
        s \in {0, 1, SecondsPerDay - 1}}

\* line 286-287 for the first file of a scan
Classify ==
    /\ obj = FileStats
    /\ \E a \in ElapsedSamples, m \in ElapsedSamples, size \in 1..MaxSize :
           LET stat_info == [st_size |-> size, st_atime |-> current_time - a,
                             st_mtime |-> current_time - m]
               last_access_days == get_last_access_days(stat_info, current_time)
           IN  /\ obj' = add_file(obj, stat_info.st_size, last_access_days)
               /\ last' = [op |-> "classify", stat_info |-> stat_info, before |-> obj]
    /\ UNCHANGED <<scanVars, mergeVars>>

InitRecency == ScanIdle /\ StatsIdle /\ MergeIdle

SpecRecency == InitRecency /\ [][Classify]_vars

\* the bucket of an exact elapsed time: the first whose last day has not
\* passed, the last bucket if all have
ExactBucket(elapsed) ==
    IF \E k \in DOMAIN Thresholds : elapsed <= Thresholds[k] * SecondsPerDay
    THEN Categories[CHOOSE k \in DOMAIN Thresholds :
                        /\ elapsed <= Thresholds[k] * SecondsPerDay
                        /\ \A j \in 1..(k - 1) : elapsed > Thresholds[j] * SecondsPerDay]
    ELSE Categories[Len(Categories)]

(* C17: the bucket of a file is determined by the exact time elapsed       *)
(* between the reference time and the later of its access and              *)
(* modification times: exactly a threshold number of days is the lower     *)
(* bucket, any fraction of a day more is the next one.                     *)
C17_ExactElapsedTime ==
    last.op = "classify" =>
        LET stat_info == last.stat_info
            later == IF stat_info.st_atime >= stat_info.st_mtime
                     THEN stat_info.st_atime ELSE stat_info.st_mtime
        IN  \A c \in CategorySet :
                obj.categories[c] =
                    IF c = ExactBucket(current_time - later) THEN stat_info.st_size ELSE 0

-----------------------------------------------------------------------------
(* From the scan to the report: main calls calculate_costs and             *)
(* generate_text_report on the Aggregate the scan returned.  Amounts are   *)
(* kept as integers: bytes times the price of a GB-month in thousandths    *)
(* of a dollar, the division by 2^30 left out.                             *)

\* a price list on which the archive tier costs more than the standard tier
PRICING_archive_dearer == [standard |-> 300, ia |-> 25, archive |-> 400]

\* PRICING, in thousandths of a dollar per GB-month
PRICING == [standard |-> 300, ia |-> 25, archive |-> 16]

\* calculate_costs with the 61-90 days category left out of every tier
calculate_costs_tier_missing(stats) ==
    LET current_cost == stats.total_size * PRICING.standard
        standard == stats.categories["0-7_days"]
        ia == stats.categories["8-14_days"] + stats.categories["15-30_days"]
        archive == stats.categories["31-60_days"]
                   + stats.categories["91-365_days"] + stats.categories["1-2_years"]
                   + stats.categories["2+_years"]
        optimized_cost == standard * PRICING.standard + ia * PRICING.ia
                          + archive * PRICING.archive
        savings == current_cost - optimized_cost
    IN  [raised |-> "none",
         total |-> stats.total_size,
         current_cost |-> current_cost,
         optimized_cost |-> optimized_cost,
         monthly_savings |-> savings,
         savings_percentage |->
             IF current_cost > 0 THEN (savings * 100) \div current_cost ELSE 0,
         tier_distribution |-> [standard |-> standard, ia |-> ia, archive |-> archive]]

\* calculate_costs with the division of line 491 left unguarded
calculate_costs_unguarded(stats) ==
    LET current_cost == stats.total_size * PRICING.standard
        standard == stats.categories["0-7_days"]
        ia == stats.categories["8-14_days"] + stats.categories["15-30_days"]
        archive == stats.categories["31-60_days"] + stats.categories["61-90_days"]
                   + stats.categories["91-365_days"] + stats.categories["1-2_years"]
                   + stats.categories["2+_years"]
        optimized_cost == standard * PRICING.standard + ia * PRICING.ia
                          + archive * PRICING.archive
        savings == current_cost - optimized_cost
    IN  IF current_cost = 0
        THEN [raised |-> "ZeroDivisionError"]
        ELSE [raised |-> "none",
              total |-> stats.total_size,
              current_cost |-> current_cost,
              optimized_cost |-> optimized_cost,
              monthly_savings |-> savings,
              savings_percentage |-> (savings * 100) \div current_cost,
              tier_distribution |->
                  [standard |-> standard, ia |-> ia, archive |-> archive]]

\* calculate_costs: no statement of lines 458-501 can raise on a FileStats,
\* the one division (line 491) being guarded by current_cost > 0
calculate_costs(stats) ==
    LET current_cost == stats.total_size * PRICING.standard
        standard == stats.categories["0-7_days"]
        ia == stats.categories["8-14_days"] + stats.categories["15-30_days"]
        archive == stats.categories["31-60_days"] + stats.categories["61-90_days"]
                   + stats.categories["91-365_days"] + stats.categories["1-2_years"]
                   + stats.categories["2+_years"]
        optimized_cost == standard * PRICING.standard + ia * PRICING.ia
                          + archive * PRICING.archive
        savings == current_cost - optimized_cost
    IN  [raised |-> "none",
         total |-> stats.total_size,
         current_cost |-> current_cost,
         optimized_cost |-> optimized_cost,
         monthly_savings |-> savings,
         savings_percentage |->
             IF current_cost > 0 THEN (savings * 100) \div current_cost ELSE 0,
         tier_distribution |-> [standard |-> standard, ia |-> ia, archive |-> archive]]

\* generate_text_report: the lines of the report that depend on stats, or
\* the exception that ends it.  Lines 535 and 565 divide by stats.total_size.
generate_text_report(stats, cost_analysis) ==
    IF stats.total_size = 0
    THEN [raised |-> "ZeroDivisionError"]
    ELSE [raised |-> "none",
          total_files |-> stats.total_files,
          total_size |-> stats.total_size,
          errors |-> stats.errors,
          percent |-> [c \in CategorySet |->
                          (stats.categories[c] * 100) \div stats.total_size],
          savings_percentage |-> cost_analysis.savings_percentage,
          archiving |-> stats.categories["2+_years"] * 10 > stats.total_size * 3]

\* the Aggregates a scan may hand to the report: every choice of empty and
\* non-empty categories, with and without errors
AggregateSamples ==
    {[categories |-> c,
      total_size |-> SumCategories([categories |-> c], Len(Categories)),
      total_files |-> n,
      errors |-> e] :
        c \in [CategorySet -> {0, MaxSize}], n \in 0..MaxFiles, e \in 0..MaxErrors}

ReportInit ==
    /\ obj \in AggregateSamples
    /\ last = [op |-> "scan"]

\* main, line 923
CalculateCosts ==
    /\ last.op = "scan"
    /\ last' = [op |-> "calculate_costs", cost_analysis |-> calculate_costs(obj)]
    /\ UNCHANGED <<obj, scanVars, mergeVars>>

\* main, line 929
GenerateTextReport ==
    /\ last.op = "calculate_costs"
    /\ last' = [op |-> "generate_text_report",
                report |-> generate_text_report(obj, last.cost_analysis)]
    /\ UNCHANGED <<obj, scanVars, mergeVars>>

ReportNext == CalculateCosts \/ GenerateTextReport

InitReport == ScanIdle /\ ReportInit /\ MergeIdle

SpecReport == InitReport /\ [][ReportNext]_vars

(* C18: for every Aggregate a scan can return, whatever its error count    *)
(* and totals, the run goes from the scan through calculate_costs to a     *)
(* report that shows the error count; report generation never ends in an   *)
(* error.                                                                  *)
C18_ReportAlwaysGenerated ==
    last.op = "generate_text_report" =>
        /\ last.report.raised = "none"
        /\ last.report.errors = obj.errors

-----------------------------------------------------------------------------
(* The scheduler.                                                          *)

(* C19: parallel_scan_directory falls back to one sequential               *)
(* scan_directory of the whole tree, from the root at depth 0, whenever    *)
(* the worker count is <= 1 or the root has fewer children than the        *)
(* worker count; only otherwise does it hand out one scan_directory per    *)
(* top-level subdirectory at depth 1.                                      *)
C19_FallbackWhenFewChildren ==
    sched.pc # "start" =>
        (Sequential <=> (cfg.parallel <= 1
                            \/ Cardinality(EntryNames(Root)) < cfg.parallel))

\* the results of the first k futures as_completed yielded, each merged once
RECURSIVE MergedYielded(_)
MergedYielded(k) ==
    IF k = 0 THEN FileStats
    ELSE IF futures[sched.yielded[k]].state = "done"
         THEN merge(MergedYielded(k - 1), futures[sched.yielded[k]].result)
         ELSE MergedYielded(k - 1)

(* C20: parallel_scan_directory returns only after every submitted job     *)
(* has completed or failed, the Aggregate of every completed job then      *)
(* merged into the result exactly once; a job still running holds back     *)
(* the return, not the merging of the jobs that completed before it.       *)
C20_ReturnsAfterEveryJob ==
    Dispatched =>
        /\ Done => \A w \in DOMAIN futures :
                       /\ futures[w].state \in {"done", "failed"}
                       /\ \E k \in DOMAIN sched.yielded : sched.yielded[k] = w
        /\ \A j, k \in DOMAIN sched.yielded :
               sched.yielded[j] = sched.yielded[k] => j = k
        /\ sched.stats = MergedYielded(Len(sched.yielded))
        /\ (\E w \in DOMAIN futures :
                futures[w].state \in {"done", "failed"} /\ ~futures[w].collected)
               => sched.pc = "collect"

\* the result of a job that returned files is merged while another job is
\* still running
C20_Witness ==
    /\ sched.pc = "collect"
    /\ \E w, v \in DOMAIN futures :
           /\ futures[w].state = "done"
           /\ futures[w].collected
           /\ futures[w].result.total_files > 0
           /\ futures[v].state = "running"
    /\ sched.stats.total_files > 0

-----------------------------------------------------------------------------
(* The cost model.                                                         *)

\* the tier calculate_costs is to give each category
TierOf(category) ==
    IF category = "0-7_days" THEN "standard"
    ELSE IF category \in {"8-14_days", "15-30_days"} THEN "ia"
    ELSE "archive"

\* the bytes of the categories of one tier, over the first k categories
RECURSIVE TierBytes(_, _, _)
TierBytes(stats, tier, k) ==
    IF k = 0 THEN 0
    ELSE TierBytes(stats, tier, k - 1)
         + (IF TierOf(Categories[k]) = tier THEN stats.categories[Categories[k]] ELSE 0)

(* C23: calculate_costs gives every category to exactly one tier (0-7 days *)
(* to standard; 8-14 and 15-30 to infrequent access; the five older ones   *)
(* to archive), so the bytes of the three tiers sum to total_size; the     *)
(* optimized cost is the sum over the tiers of tier size times tier rate   *)
(* and the current cost is the total size times the standard rate.         *)
C23_TiersPartitionTheTotal ==
    last.op = "calculate_costs" =>
        LET cost == last.cost_analysis
            tier == cost.tier_distribution
        IN  /\ \A t \in {"standard", "ia", "archive"} :
                    tier[t] = TierBytes(obj, t, Len(Categories))
            /\ tier.standard + tier.ia + tier.archive = obj.total_size
            /\ cost.optimized_cost = tier.standard * PRICING.standard
                                       + tier.ia * PRICING.ia
                                       + tier.archive * PRICING.archive
            /\ cost.current_cost = obj.total_size * PRICING.standard

\* costs computed for an Aggregate with bytes in every category
C23_Witness ==
    /\ last.op = "calculate_costs"
    /\ \A c \in CategorySet : obj.categories[c] > 0
    /\ last.cost_analysis.tier_distribution.archive = 5 * MaxSize

(* C24: calculate_costs returns savings_percentage = 0 whenever the        *)
(* current cost is 0 (total_size = 0) and savings / current cost x 100     *)
(* otherwise; for no Aggregate does it divide by zero or end in an error.  *)
C24_PercentageGuarded ==
    last.op = "calculate_costs" =>
        LET cost == last.cost_analysis
        IN  /\ cost.raised = "none"
            /\ (cost.current_cost = 0) <=> (obj.total_size = 0)
            /\ cost.current_cost = 0 => cost.savings_percentage = 0
            /\ cost.current_cost > 0 =>
                    cost.savings_percentage
                        = (cost.monthly_savings * 100) \div cost.current_cost

\* costs computed for an empty Aggregate that carries errors
C24_Witness ==
    /\ last.op = "calculate_costs"
    /\ obj.total_size = 0
    /\ obj.errors > 0
    /\ last.cost_analysis.savings_percentage = 0

(* C29: for every Aggregate whose categories are non-negative and sum to   *)
(* total_size, the optimized cost is at most the current cost, so          *)
(* monthly_savings is never negative and savings_percentage lies between   *)
(* 0 and 100.                                                              *)
C29_SavingsNeverNegative ==
    (last.op = "calculate_costs" /\ Consistent(obj)
        /\ \A c \in CategorySet : obj.categories[c] >= 0) =>
        LET cost == last.cost_analysis
        IN  /\ cost.optimized_cost <= cost.current_cost
            /\ cost.monthly_savings >= 0
            /\ cost.savings_percentage \in 0..100

\* costs computed for an Aggregate held in the archive categories only:
\* the largest saving
C29_Witness ==
    /\ last.op = "calculate_costs"
    /\ obj.categories["2+_years"] > 0
    /\ obj.categories["0-7_days"] = 0
    /\ last.cost_analysis.monthly_savings > 0
    /\ last.cost_analysis.savings_percentage >= 90

-----------------------------------------------------------------------------
(* Concurrency of the scan.                                                *)

\* the pool processes inside a scan_directory call
Executing == {w \in Procs \ {0} : Running(w)}

\* in process p, the call at level k of the stack waits for the one call it
\* made, for its i-th subdirectory
WaitsForOneCall(p, k) ==
    LET caller == walk[p].stack[k]
        callee == walk[p].stack[k + 1]
    IN  /\ caller.pc = "recurse"
        /\ caller.i \in 1..Len(caller.subdirs)
        /\ callee.directory = caller.subdirs[caller.i]
        /\ callee.current_depth = caller.current_depth + 1

(* C26: at any moment of a parallel scan at most min(worker count, number  *)
(* of dispatched subdirectories) scan_directory jobs are executing, and    *)
(* inside one invocation the subdirectories are walked one at a time: the  *)
(* invocation waits for the recursive call on one subdirectory before it   *)
(* makes the next.                                                         *)
C26_BoundedConcurrency ==
    /\ Dispatched =>
           /\ Cardinality(Executing) <= Min(cfg.parallel, Len(sched.subdirs))
           /\ Executing = {w \in DOMAIN futures : futures[w].state = "running"}
           /\ ~Running(0)
    /\ \A p \in Procs :
           \A k \in 1..(Len(walk[p].stack) - 1) : WaitsForOneCall(p, k)

\* three jobs for a pool of two: two are executing, one of them two calls
\* deep, and the third waits for a free process
C26_Witness ==
    /\ Dispatched
    /\ Len(sched.subdirs) > cfg.parallel
    /\ Cardinality(Executing) = cfg.parallel
    /\ \E w \in DOMAIN futures : futures[w].state = "pending"
    /\ \E w \in Executing : Len(walk[w].stack) >= 2

-----------------------------------------------------------------------------
(* One file, one count.                                                    *)

\* the canonical paths of the files added so far
CountedFiles == {e.real : e \in counted}

(* C27: in one sequential walk each regular file, identified by its        *)
(* canonical path, is added to the Aggregate at most once, even when it    *)
(* can be reached through several links or paths; total_files never        *)
(* exceeds the number of distinct regular files reachable from the root.   *)
C27_EachFileCountedOnce ==
    Sequential =>
        /\ \A e1, e2 \in counted : e1.real = e2.real => e1 = e2
        /\ CountedFiles \subseteq RegularFiles
        /\ \A k \in 1..Len(walk[0].stack) :
               walk[0].stack[k].stats.total_files <= Cardinality(CountedFiles)
        /\ Done => sched.stats.total_files = Cardinality(CountedFiles)

\* a sequential walk that followed a link to a file and met the file again
\* under its own name: two paths, one count
C27_Witness ==
    /\ Done
    /\ Sequential
    /\ cfg.follow_symlinks
    /\ cfg.link = File3
    /\ \E d \in listed : d.directory = Front(LinkPath)
    /\ \E d \in listed : d.directory = Front(File3)
    /\ Cardinality({e \in counted : e.real = File3}) = 1

-----------------------------------------------------------------------------
(* Who writes what during a parallel scan.                                 *)

\* the canonical paths process p resolved: the entries of the directories
\* it listed
ResolvedBy(p) ==
    UNION {{resolve(Append(d.directory, name)) : name \in EntryNames(d.directory)} :
              d \in {e \in listed : e.proc = p}}

\* the add_file calls process p made
CountedBy(p) == {e \in counted : e.proc = p}

\* total_files over the FileStats of the first k calls on the stack of p
RECURSIVE FilesInCalls(_, _)
FilesInCalls(p, k) ==
    IF k = 0 THEN 0
    ELSE FilesInCalls(p, k - 1) + walk[p].stack[k].stats.total_files

(* C21: during a parallel scan no FileStats and no visited set is written  *)
(* by two processes.  Each job starts from a visited set of its own that   *)
(* is empty, and the set holds nothing but what the job's own process      *)
(* resolved; the FileStats of the calls of a process hold only the files   *)
(* that process added; the scheduler's own visited set stays untouched;    *)
(* and the scheduler's accumulator is the merge of the results of the      *)
(* jobs whose completion as_completed has already reported, nothing else.  *)
C21_NoSharedWrites ==
    Dispatched =>
        /\ \A w \in Procs \ {0} :
               /\ walk[w].visited_paths \subseteq ResolvedBy(w)
               /\ FilesInCalls(w, Len(walk[w].stack)) <= Cardinality(CountedBy(w))
               /\ (w \in DOMAIN futures /\ futures[w].state = "pending") =>
                      walk[w] = NoProcess
               /\ (w \in DOMAIN futures /\ futures[w].state = "done") =>
                      futures[w].result.total_files = Cardinality(CountedBy(w))
        /\ walk[0] = NoProcess
        /\ CountedBy(0) = {}
        /\ \A k \in 1..Len(sched.yielded) :
               /\ futures[sched.yielded[k]].state \in {"done", "failed"}
               /\ futures[sched.yielded[k]].collected
        /\ sched.stats = MergedYielded(Len(sched.yielded))

\* one job's result is in the accumulator while two other jobs are in
\* scan_directory, each with paths in a visited set of its own
C21_Witness ==
    /\ Dispatched
    /\ sched.stats.total_files > 0
    /\ \E v, w \in Executing :
           /\ v # w
           /\ walk[v].visited_paths # {}
           /\ walk[w].visited_paths # {}
           /\ walk[v].visited_paths \cap walk[w].visited_paths = {}

-----------------------------------------------------------------------------
(* The same sequential scan run twice.  The first run's Aggregate is kept  *)
(* in obj, and the second run, over the same tree with the same settings,  *)
(* is free to get the entries of each directory in another order.          *)

\* the single-process scans
InitOrders == Init /\ cfg.parallel = 1

\* the program is run again on the same tree: a new FileStats, a new
\* visited_paths
Rescan ==
    /\ Done
    /\ Sequential
    /\ last = NoCall
    /\ obj' = sched.stats
    /\ last' = [op |-> "scan_directory"]
    /\ sched' = [pc |-> "start", subdirs |-> <<>>, stats |-> FileStats,
                 yielded |-> <<>>]
    /\ walk' = [p \in Procs |-> NoProcess]
    /\ listed' = {}
    /\ counted' = {}
    /\ UNCHANGED <<cfg, futures, pool, operands>>

OrdersNext ==
    \/ Fallback
    \/ ScanEntries(0)
    \/ Descend(0)
    \/ Return(0)
    \/ FinishSequential
    \/ Rescan

SpecOrders == InitOrders /\ [][OrdersNext]_vars

(* C28: for a fixed file system and configuration (symlink following and   *)
(* a finite max_depth included) the Aggregate a sequential scan_directory  *)
(* returns is the same for every order in which the entries of each        *)
(* directory are listed: a second scan returns what the first returned.    *)
C28_ListingOrderIrrelevant ==
    (Done /\ last.op = "scan_directory") => sched.stats = obj

-----------------------------------------------------------------------------
(* The same parallel scan run twice: first with as many workers as there   *)
(* are dispatched subdirectories, then with more.  The first run's         *)
(* Aggregate is kept in obj.  No job is killed in either run.              *)

\* the scans with at most as many workers as the root has subdirectories
InitExcess == Init /\ cfg.parallel \in {1, 2} /\ ~cfg.top

\* the program is run again on the same tree with a larger --parallel
RerunExcess ==
    /\ Done
    /\ Dispatched
    /\ last = NoCall
    /\ cfg.parallel = Len(sched.subdirs)
    /\ \E parallel \in {n \in Parallels : n > Len(sched.subdirs)} :
           cfg' = [cfg EXCEPT !.parallel = parallel]
    /\ obj' = sched.stats
    /\ last' = [op |-> "parallel_scan_directory", parallel |-> cfg.parallel]
    /\ sched' = [pc |-> "start", subdirs |-> <<>>, stats |-> FileStats,
                 yielded |-> <<>>]
    /\ futures' = <<>>
    /\ walk' = [p \in Procs |-> NoProcess]
    /\ listed' = {}
    /\ counted' = {}
    /\ UNCHANGED <<pool, operands>>

ExcessNext ==
    \/ Fallback
    \/ Dispatch
    \/ \E p \in Procs : ScanEntries(p)
    \/ \E p \in Procs : Descend(p)
    \/ \E p \in Procs : Return(p)
    \/ FinishSequential
    \/ \E w \in Procs : StartWorker(w)
    \/ \E w \in Procs : WorkerDone(w)
    \/ \E w \in Procs : Collect(w)
    \/ Finish
    \/ RerunExcess

SpecExcess == InitExcess /\ [][ExcessNext]_vars

(* C22: for a fixed file system and configuration, a parallel scan with    *)
(* more workers than dispatched top-level subdirectories returns the same  *)
(* Aggregate as a parallel scan with exactly as many workers as            *)
(* dispatched subdirectories.                                              *)
C22_ExcessWorkersChangeNothing ==
    (Done /\ last.op = "parallel_scan_directory") =>
        /\ cfg.parallel > last.parallel
        /\ sched.stats = obj

\* the second run, through a pool asked for more workers than there are
\* jobs, has returned the files the first run returned
C22_Witness ==
    /\ Done
    /\ Dispatched
    /\ last.op = "parallel_scan_directory"
    /\ cfg.parallel > Len(futures)
    /\ last.parallel = Len(futures)
    /\ sched.stats.total_files > 0
    /\ sched.stats = obj

-----------------------------------------------------------------------------
(* What the scan does to the tree it reads.  scan_directory calls          *)
(* os.scandir, DirEntry.is_dir, is_symlink, is_file and stat, and          *)
(* Path.resolve: none of them writes data, names, sizes or permissions.    *)
(* Reading a directory, though, marks its access time for update (POSIX    *)
(* readdir), and os.scandir is called without O_NOATIME; the mount is      *)
(* taken to apply the mark, as relatime does for a directory last read     *)
(* more than a day before, and strictatime always does.                    *)

\* the directories os.scandir has read (line 251)
ScannedDirectories ==
    {e.real : e \in {l \in listed : ScandirOutcome(l.directory) = "ok"}}

\* the tree before the scan: kind, size and times of every node; each
\* directory was last read two days before
tree_before(node) ==
    IF node \in RegularFiles
    THEN [kind |-> "file", st_size |-> StatOf(node).st_size,
          st_atime |-> StatOf(node).st_atime, st_mtime |-> StatOf(node).st_mtime]
    ELSE [kind |-> "dir", st_size |-> 0,
          st_atime |-> current_time - 2 * SecondsPerDay,
          st_mtime |-> current_time - 2 * SecondsPerDay]

\* the tree as the scan has left it so far
tree_now(node) ==
    IF node \in ScannedDirectories
    THEN [tree_before(node) EXCEPT !.st_atime = current_time]
    ELSE tree_before(node)

(* C25: every step of the traversal and aggregation leaves the scanned     *)
(* file system unchanged: no file, directory, link, permission or          *)
(* timestamp under the scan root differs after the scan from before it.    *)
C25_FileSystemUnchanged ==
    \A node \in Directories \cup RegularFiles : tree_now(node) = tree_before(node)

====
